---- MODULE Spec2Model ----
(***************************************************************************)
(* A model of the Huffman-coding crate: utils::frequency, utils::expected, *)
(* utils::huffman with generate_codes, and the ordering of nodes::Node.    *)
(*                                                                         *)
(* Probabilities are modelled as integer weights (numerators over a common *)
(* denominator); a symbol is a one-character string; a code is a sequence  *)
(* of the bits 0 and 1, the empty sequence being String::new().            *)
(* HashMaps are functions whose DOMAIN is the key set.  The iteration      *)
(* order of a HashMap and the order in which a BinaryHeap yields nodes     *)
(* that compare Equal are unspecified, and are nondeterministic choices.   *)
(***************************************************************************)
EXTENDS Integers, Sequences, FiniteSets, TLC

(* ---------------------------- bounds ----------------------------------- *)

\* The alphabet the inputs are drawn from.
Symbols == {"A", "B", "C", "D"}

\* Probability weights are drawn from 0..MaxWeight.
MaxWeight == 3

\* The longest input string given to frequency.
MaxLen == 4

\* The longest code of a competing code assignment (optimality).
MaxCodeLen == 3

\* The longest code of a code assignment handed to expected.
MaxGivenCodeLen == 1

\* The alphabet of the tables handed to expected.
GivenSymbols == {"A", "B", "C"}

VARIABLES
    pc,             \* the position of the call in progress
    s,              \* frequency: the input string
    i,              \* frequency: number of characters consumed by the loop
    d,              \* frequency: the HashMap being built
    f,              \* expected: the probability table
    c,              \* expected: the code assignment
    result,         \* expected: the returned Result
    probs,          \* huffman: the probability table
    heap,           \* huffman: the BinaryHeap<Node>
    a,              \* huffman: the first node popped in the latest iteration
    b,              \* huffman: the second node popped in the latest iteration
    merges,         \* huffman: iterations of the merge loop so far
    huffman_codes,  \* huffman: the returned code table
    calls,          \* huffman: how many calls were made on this table
    earlier         \* huffman: the code table an earlier call returned

vars == <<pc, s, i, d, f, c, result, probs, heap, a, b, merges,
          huffman_codes, calls, earlier>>

(* ------------------------- HashMap helpers ----------------------------- *)

\* HashMap::new()
EmptyMap == <<>>

\* HashMap::insert: the key is added, or its value replaced.
Insert(m, k, v) == [x \in (DOMAIN m) \cup {k} |-> IF x = k THEN v ELSE m[x]]

\* All tables with keys among S and values in V.
Tables(S, V) == UNION {[K -> V] : K \in SUBSET S}

\* All bit strings of length at most n.
BitStrings(n) == UNION {[1..k -> {0, 1}] : k \in 0..n}

RECURSIVE Sum(_, _)
\* The sum of g over the finite set S.
Sum(g, S) == IF S = {} THEN 0
             ELSE LET x == CHOOSE y \in S : TRUE IN g[x] + Sum(g, S \ {x})

(* ------------------------------ nodes ---------------------------------- *)

\* Node { probability, kind: NodeKind::Leaf { symbol } }
Leaf(symbol, probability) ==
    [probability |-> probability, kind |-> [tag |-> "Leaf", symbol |-> symbol]]

\* Node { probability, kind: NodeKind::Internal { left, right } }
Internal(probability, left, right) ==
    [probability |-> probability,
     kind |-> [tag |-> "Internal", left |-> left, right |-> right]]

\* f32::partial_cmp on numbers that are not NaN.
partial_cmp(x, y) == IF x < y THEN "Less" ELSE IF x = y THEN "Equal" ELSE "Greater"

cmp_unreversed(self, other) == partial_cmp(self.probability, other.probability)

\* Node::cmp: the comparison is reversed, so the greatest node of the
\* max-heap is one of lowest probability.
cmp(self, other) == partial_cmp(other.probability, self.probability)

Greatest_any(h) == h

\* BinaryHeap::pop yields a greatest node: one that no node of the heap
\* exceeds.  Which one among nodes comparing Equal is unspecified.
Greatest(h) == {n \in h : \A m \in h : cmp(m, n) # "Greater"}

(* --------------------------- generate_codes ---------------------------- *)

RECURSIVE generate_codes_no_one(_, _, _)
generate_codes_no_one(node, current_code, codes) ==
    IF node.kind.tag = "Leaf"
    THEN Insert(codes, node.kind.symbol, current_code)
    ELSE generate_codes_no_one(node.kind.right, current_code,
             generate_codes_no_one(node.kind.left, Append(current_code, 0), codes))

RECURSIVE generate_codes(_, _, _)
generate_codes(node, current_code, codes) ==
    IF node.kind.tag = "Leaf"
    THEN Insert(codes, node.kind.symbol, current_code)
    ELSE generate_codes(node.kind.right, Append(current_code, 1),
             generate_codes(node.kind.left, Append(current_code, 0), codes))

(* ------------------------------ huffman -------------------------------- *)

NoNode == [probability |-> 0, kind |-> [tag |-> "None"]]

Collect_positive(p) == {Leaf(symbol, p[symbol]) : symbol \in {x \in DOMAIN p : p[x] > 0}}

\* The heap collected from the table: one Leaf per entry.
Collect(p) == {Leaf(symbol, p[symbol]) : symbol \in DOMAIN p}

\* The caller invokes huffman(probs); the heap is collected from the table.
HuffmanCollect ==
    /\ pc = "huffman"
    /\ heap' = Collect(probs)
    /\ pc' = "huffman_loop"
    /\ UNCHANGED <<s, i, d, f, c, result, probs, a, b, merges,
                   huffman_codes, calls, earlier>>

\* One iteration of `while heap.len() > 1`.
HuffmanMerge ==
    /\ pc = "huffman_loop"
    /\ Cardinality(heap) > 1
    /\ \E x \in Greatest(heap) :
         \E y \in Greatest(heap \ {x}) :
            /\ a' = x
            /\ b' = y
            /\ heap' = (heap \ {x, y})
                         \cup {Internal(x.probability + y.probability, x, y)}
    /\ merges' = merges + 1
    /\ UNCHANGED <<pc, s, i, d, f, c, result, probs, huffman_codes, calls, earlier>>

\* The loop is over and the heap holds the root: pop it and generate codes.
HuffmanCodes ==
    /\ pc = "huffman_loop"
    /\ Cardinality(heap) = 1
    /\ \E root \in Greatest(heap) :
         /\ heap' = heap \ {root}
         /\ huffman_codes' = generate_codes(root, <<>>, EmptyMap)
    /\ pc' = "huffman_done"
    /\ UNCHANGED <<s, i, d, f, c, result, probs, a, b, merges, calls, earlier>>

\* The loop is over and the heap is empty: heap.pop() is None, unwrap panics.
HuffmanUnwrapNone ==
    /\ pc = "huffman_loop"
    /\ heap = {}
    /\ pc' = "huffman_panicked"
    /\ UNCHANGED <<s, i, d, f, c, result, probs, heap, a, b, merges,
                   huffman_codes, calls, earlier>>

\* The caller invokes huffman a second time on the same table.
HuffmanAgain ==
    /\ pc = "huffman_done"
    /\ calls = 1
    /\ calls' = 2
    /\ earlier' = huffman_codes
    /\ huffman_codes' = EmptyMap
    /\ a' = NoNode
    /\ b' = NoNode
    /\ merges' = 0
    /\ pc' = "huffman"
    /\ UNCHANGED <<s, i, d, f, c, result, probs, heap>>

\* No call of huffman is in progress.
HuffmanIdle ==
    /\ probs = EmptyMap
    /\ heap = {}
    /\ a = NoNode
    /\ b = NoNode
    /\ merges = 0
    /\ huffman_codes = EmptyMap
    /\ calls = 0
    /\ earlier = EmptyMap

\* No call of frequency is in progress.
FrequencyIdle == s = <<>> /\ i = 0 /\ d = EmptyMap

NoResult == [tag |-> "None"]

\* No call of expected is in progress.
ExpectedIdle == f = EmptyMap /\ c = EmptyMap /\ result = NoResult

\* huffman is called on any table over the alphabet.
InitHuffman ==
    /\ pc = "huffman"
    /\ probs \in Tables(Symbols, 0..MaxWeight)
    /\ heap = {}
    /\ a = NoNode
    /\ b = NoNode
    /\ merges = 0
    /\ huffman_codes = EmptyMap
    /\ calls = 1
    /\ earlier = EmptyMap
    /\ FrequencyIdle
    /\ ExpectedIdle

Next ==
    \/ HuffmanCollect
    \/ HuffmanMerge
    \/ HuffmanCodes
    \/ HuffmanUnwrapNone
    \/ HuffmanAgain

Spec == InitHuffman /\ [][Next]_vars

(* ----------------------------- frequency ------------------------------- *)

\* *d.entry(symbol).or_insert(0) += 1, on 32-bit counts far from overflow.
Increment_from_one(m, symbol) ==
    Insert(m, symbol, (IF symbol \in DOMAIN m THEN m[symbol] ELSE 1) + 1)

Increment(m, symbol) ==
    Insert(m, symbol, (IF symbol \in DOMAIN m THEN m[symbol] ELSE 0) + 1)

\* One iteration of `for symbol in s.chars()`.
FrequencyStep ==
    /\ pc = "frequency"
    /\ i < Len(s)
    /\ d' = Increment(d, s[i + 1])
    /\ i' = i + 1
    /\ UNCHANGED <<pc, s, f, c, result, probs, heap, a, b, merges,
                   huffman_codes, calls, earlier>>

\* The string is consumed: d is returned.
FrequencyReturn ==
    /\ pc = "frequency"
    /\ i = Len(s)
    /\ pc' = "frequency_done"
    /\ UNCHANGED <<s, i, d, f, c, result, probs, heap, a, b, merges,
                   huffman_codes, calls, earlier>>

\* frequency is called on any string of at most MaxLen characters.
InitFrequency ==
    /\ pc = "frequency"
    /\ s \in UNION {[1..n -> Symbols] : n \in 0..MaxLen}
    /\ i = 0
    /\ d = EmptyMap
    /\ HuffmanIdle
    /\ ExpectedIdle

NextFrequency == FrequencyStep \/ FrequencyReturn

SpecFrequency == InitFrequency /\ [][NextFrequency]_vars

(* ------------------------------ expected ------------------------------- *)

Ok(total) == [tag |-> "Ok", total |-> total]

Err(error, symbol) == [tag |-> "Err", error |-> error, symbol |-> symbol]

\* total after the first loop: the sum of freq * code.len() over f.
TotalLength(table, codes) ==
    Sum([x \in DOMAIN table |-> table[x] * Len(codes[x])], DOMAIN table)

expected_extra_first(table, codes) ==
    IF (DOMAIN codes) \ (DOMAIN table) # {}
    THEN {Err("ExtraSymbolInCodes", x) : x \in (DOMAIN codes) \ (DOMAIN table)}
    ELSE IF (DOMAIN table) \ (DOMAIN codes) # {}
    THEN {Err("SymbolNotFoundInCodes", x) : x \in (DOMAIN table) \ (DOMAIN codes)}
    ELSE {Ok(TotalLength(table, codes))}

expected_one_loop(table, codes) ==
    IF (DOMAIN table) \ (DOMAIN codes) # {}
    THEN {Err("SymbolNotFoundInCodes", x) : x \in (DOMAIN table) \ (DOMAIN codes)}
    ELSE {Ok(TotalLength(table, codes))}

\* The outcomes of expected(f, c).  The first loop returns at the first
\* symbol of f without a code, whichever the iteration meets first; only if
\* there is none does the second loop run, returning at the first key of c
\* that f lacks; otherwise the total is returned.
expected(table, codes) ==
    IF (DOMAIN table) \ (DOMAIN codes) # {}
    THEN {Err("SymbolNotFoundInCodes", x) : x \in (DOMAIN table) \ (DOMAIN codes)}
    ELSE IF (DOMAIN codes) \ (DOMAIN table) # {}
    THEN {Err("ExtraSymbolInCodes", x) : x \in (DOMAIN codes) \ (DOMAIN table)}
    ELSE {Ok(TotalLength(table, codes))}

\* The caller invokes expected(&f, &c).
Expected ==
    /\ pc = "expected"
    /\ result' \in expected(f, c)
    /\ pc' = "expected_done"
    /\ UNCHANGED <<s, i, d, f, c, probs, heap, a, b, merges,
                   huffman_codes, calls, earlier>>

\* expected is called on any pair of tables over the alphabet.
InitExpected ==
    /\ pc = "expected"
    /\ f \in Tables(GivenSymbols, 0..MaxWeight)
    /\ c \in Tables(GivenSymbols, BitStrings(MaxGivenCodeLen))
    /\ result = NoResult
    /\ HuffmanIdle
    /\ FrequencyIdle

NextExpected == Expected

SpecExpected == InitExpected /\ [][NextExpected]_vars

(* ======================================================================= *)
(*                               Properties                                *)
(* ======================================================================= *)

\* x is a prefix of y (equal strings included).
IsPrefix(x, y) == Len(x) <= Len(y) /\ SubSeq(y, 1, Len(x)) = x

\* No code of the table is a prefix of the code of another symbol.
IsPrefixFree(codes) ==
    \A x, y \in DOMAIN codes : x # y => ~IsPrefix(codes[x], codes[y])

\* The weighted length of a code assignment given by its code lengths.
Cost(table, lengths) == Sum([x \in DOMAIN table |-> table[x] * lengths[x]], DOMAIN table)

\* The code lengths of every prefix-free assignment of bit strings of length
\* at most MaxCodeLen to a set of at least two symbols: functions from the
\* symbols to the lengths of their codes.
PrefixFreeLengths ==
    UNION {{[x \in S |-> Len(k[x])] :
               k \in {k \in [S -> BitStrings(MaxCodeLen)] : IsPrefixFree(k)}} :
           S \in {S \in SUBSET Symbols : Cardinality(S) >= 2}}

\* The occurrences of x in the sequence q.
Occurrences(q, x) == Cardinality({k \in 1..Len(q) : q[k] = x})

\* C1: when huffman returns, no symbol's code is a prefix of the code of
\* another symbol of the table.
C1_PrefixFree == pc = "huffman_done" => IsPrefixFree(huffman_codes)

C1_Witness ==
    /\ pc = "huffman_done"
    /\ Cardinality(DOMAIN probs) = 4
    /\ \E x, y \in DOMAIN huffman_codes : Len(huffman_codes[x]) < Len(huffman_codes[y])

\* C2 (as claimed): when huffman returns, every code has length at least 1,
\* also for a table of one symbol.
C2_EveryCodeNonEmpty ==
    pc = "huffman_done" => \A x \in DOMAIN huffman_codes : Len(huffman_codes[x]) >= 1

\* C3 (as claimed): huffman on the empty table ends by reporting the typed
\* error EmptyAlphabet to its caller: it neither panics nor returns a table.
C3_EmptyTableTypedError ==
    (DOMAIN probs = {} /\ pc \notin {"huffman", "huffman_loop"})
        => pc = "huffman_err_EmptyAlphabet"

\* C4 (as claimed): a second call of huffman on the same table returns the
\* code table the first call returned.
C4_Deterministic ==
    (pc = "huffman_done" /\ calls = 2) => huffman_codes = earlier

\* C5: for a table of at least two symbols, the weighted code length of the
\* returned table is at most that of every prefix-free assignment of codes
\* of length at most MaxCodeLen to the same symbols.
C5_Optimal ==
    (pc = "huffman_done" /\ Cardinality(DOMAIN probs) >= 2)
        => \A other \in PrefixFreeLengths :
              DOMAIN other = DOMAIN probs =>
                  Cost(probs, [x \in DOMAIN probs |-> Len(huffman_codes[x])])
                      <= Cost(probs, other)

C5_Witness ==
    /\ pc = "huffman_done"
    /\ Cardinality(DOMAIN probs) = 4
    /\ \E x, y \in DOMAIN probs : x # y /\ probs[x] = probs[y] /\ probs[x] > 0
    /\ \E other \in PrefixFreeLengths :
          /\ DOMAIN other = DOMAIN probs
          /\ Cost(probs, [x \in DOMAIN probs |-> Len(huffman_codes[x])])
                 < Cost(probs, other)
    /\ \E x \in DOMAIN probs : Len(huffman_codes[x]) = 3

\* C6: when huffman returns, the keys of the code table are exactly the
\* symbols of the probability table.
C6_SameKeys == pc = "huffman_done" => DOMAIN huffman_codes = DOMAIN probs

C6_Witness ==
    /\ pc = "huffman_done"
    /\ DOMAIN huffman_codes = Symbols
    /\ \E x \in DOMAIN probs : probs[x] = 0

\* C10: after every iteration of the merge loop, the two nodes popped
\* satisfy a.probability <= b.probability <= the probability of every node
\* left in the heap, the node pushed is Internal with the sum of their
\* probabilities, a on the left and b on the right, and the heap has shrunk
\* by one per iteration; for a non-empty table the loop ends with one node
\* after n - 1 merges.
C10_MergeLoop ==
    /\ (pc = "huffman_loop" /\ merges > 0) =>
          LET pushed == Internal(a.probability + b.probability, a, b) IN
            /\ a.probability <= b.probability
            /\ pushed \in heap
            /\ \A n \in heap \ {pushed} : b.probability <= n.probability
    /\ pc = "huffman_loop" =>
          Cardinality(heap) = Cardinality(DOMAIN probs) - merges
    /\ (pc = "huffman_loop" /\ Cardinality(heap) <= 1 /\ DOMAIN probs # {}) =>
          (Cardinality(heap) = 1 /\ merges = Cardinality(DOMAIN probs) - 1)
    /\ pc = "huffman_done" => merges = Cardinality(DOMAIN probs) - 1

C10_Witness ==
    /\ pc = "huffman_loop"
    /\ merges = 3
    /\ Cardinality(heap) = 1
    /\ a.kind.tag = "Internal"
    /\ a.probability < b.probability

\* C9: when frequency returns, the keys of the table are exactly the
\* distinct symbols of the string, each mapped to its number of
\* occurrences; the counts sum to the length of the string, and the empty
\* string gives the empty table.
C9_ExactCounts ==
    pc = "frequency_done" =>
        /\ DOMAIN d = {s[k] : k \in 1..Len(s)}
        /\ \A x \in DOMAIN d : d[x] = Occurrences(s, x)
        /\ Sum(d, DOMAIN d) = Len(s)
        /\ (s = <<>> => d = EmptyMap)

C9_Witness ==
    /\ pc = "frequency_done"
    /\ Len(s) = 4
    /\ \E x, y \in DOMAIN d : d[x] = 2 /\ d[y] = 1

\* The symbols of the probability table that have no code.
Missing == (DOMAIN f) \ (DOMAIN c)

\* The symbols of the code assignment that the probability table lacks.
Extra == (DOMAIN c) \ (DOMAIN f)

\* C7 (as claimed): whenever the code assignment has a symbol that the
\* probability table lacks, expected fails with ExtraSymbolInCodes naming
\* such a symbol, also when the table has a symbol without a code.
C7_ExtraAlwaysReported ==
    (pc = "expected_done" /\ Extra # {}) =>
        /\ result.tag = "Err"
        /\ result.error = "ExtraSymbolInCodes"
        /\ result.symbol \in Extra

\* C7 (amended): whenever the code assignment has a symbol that the
\* probability table lacks, expected fails; with ExtraSymbolInCodes naming
\* such a symbol if every symbol of the table has a code, and otherwise
\* with SymbolNotFoundInCodes naming a symbol of the table without a code.
C7_ExtraReportedUnlessMissing ==
    (pc = "expected_done" /\ Extra # {}) =>
        /\ result.tag = "Err"
        /\ Missing = {} =>
              (result.error = "ExtraSymbolInCodes" /\ result.symbol \in Extra)
        /\ Missing # {} =>
              (result.error = "SymbolNotFoundInCodes" /\ result.symbol \in Missing)

C7_Witness ==
    /\ pc = "expected_done"
    /\ Cardinality(Extra) = 2
    /\ Missing = {}
    /\ f # EmptyMap
    /\ result.tag = "Err"
    /\ result.error = "ExtraSymbolInCodes"

\* C8: whenever the probability table has a symbol without a code, expected
\* fails with SymbolNotFoundInCodes naming such a symbol; and expected
\* returns Ok only when the two key sets are equal.
C8_MissingReported ==
    pc = "expected_done" =>
        /\ Missing # {} =>
              /\ result.tag = "Err"
              /\ result.error = "SymbolNotFoundInCodes"
              /\ result.symbol \in Missing
        /\ result.tag = "Ok" => DOMAIN f = DOMAIN c

C8_Witness ==
    /\ pc = "expected_done"
    /\ Missing # {}
    /\ Extra # {}
    /\ result.tag = "Err"
    /\ result.error = "SymbolNotFoundInCodes"

====
